---- MODULE Spec2Model ----
(***************************************************************************)
(* A model of ZapAlloc: the raw block, the bump block with its in-band     *)
(* line marks, size classification and the heap (block list plus facade).  *)
(*                                                                         *)
(* Addresses and sizes are byte counts.  The model is of a 64-bit target:  *)
(* size_of::<usize>() is 8.  TLC's integers are 32 bits wide, so a usize   *)
(* that may exceed 2^31 (an object size on its way to classification) is   *)
(* kept as a two-limb value [hi, lo] standing for hi * 2^16 + lo; block    *)
(* addresses and anything already known to be at most BLOCK_SIZE are plain *)
(* integers.                                                               *)
(*                                                                         *)
(* Record constructors list their fields in the order of the names' first  *)
(* appearance in this module, which is the order TLC keeps a record's      *)
(* fields in, so that no record is ever reordered after it is built.       *)
(***************************************************************************)
EXTENDS Integers, Sequences, FiniteSets, TLC

VARIABLES
    hsize,      \* size_of::<H>() of the heap's header type H
    blocks,     \* ZapHeap.blocks: the BlockList
    created,    \* how many blocks the OS allocator has handed out
    last,       \* what the last alloc / alloc_array call did and returned
    hist,       \* the run of equal successful allocations since ZapHeap::new
    given,      \* the bytes handed out by the successful calls since
                \* ZapHeap::new, and whether a call handed out a byte again
    bb,         \* a stand-alone BumpBlock (Option<BumpBlock>)
    ret         \* what the last operation on bb returned, and ret.prev: the
                \* pointer its last inner_alloc of alloc_size >= 1 returned
                \* since bb was created or reset

vars == <<hsize, blocks, created, last, hist, given, bb, ret>>

----------------------------------------------------------------------------
(* Bounds of the model. *)

\* The OS allocator hands out at most this many blocks, then reports OOM.
MaxBlocks == 3

----------------------------------------------------------------------------
(* constants.rs *)

BLOCK_SIZE == 1024 * 16
LINE_SIZE == 128
META_SIZE == BLOCK_SIZE \div LINE_SIZE
LINE_COUNT == META_SIZE - 1
BLOCK_CAPACITY == BLOCK_SIZE - META_SIZE
META_OFFSET == BLOCK_CAPACITY

\* size_of::<usize>() on a 64-bit target
ALIGN == 8

\* A variant of the mask that clears no bit.
AndAlignMask_none(x) == x

\* x & ALLOC_ALIGN_MASK, with ALLOC_ALIGN_MASK = !(size_of::<usize>() - 1)
AndAlignMask(x) == x - (x % ALIGN)

FREE == 0
MARKED == 1

----------------------------------------------------------------------------
(* Two-limb usize values. *)

LIMB == 2^16

W(n) == [hi |-> n \div LIMB, lo |-> n % LIMB]

WAdd(a, b) ==
    LET s == a.lo + b.lo
    IN  [hi |-> a.hi + b.hi + (s \div LIMB), lo |-> s % LIMB]

WLe(a, b) == a.hi < b.hi \/ (a.hi = b.hi /\ a.lo <= b.lo)

\* Only for a value known to fit.
WInt(a) == a.hi * LIMB + a.lo

\* std::u32::MAX as usize
MAX_ALLOC_SIZE == [hi |-> LIMB - 1, lo |-> LIMB - 1]
SMALL_OBJECT_MIN == 1
SMALL_OBJECT_MAX == LINE_SIZE
MEDIUM_OBJECT_MIN == SMALL_OBJECT_MAX + 1
MEDIUM_OBJECT_MAX == 1024 * 8
LARGE_OBJECT_MIN == MEDIUM_OBJECT_MAX + 1
LARGE_OBJECT_MAX == MAX_ALLOC_SIZE

----------------------------------------------------------------------------
(* Option and Result values. *)

None == [tag |-> "None", val |-> 0]
Some(v) == [tag |-> "Some", val |-> v]

Reverse(s) == [i \in 1..Len(s) |-> s[Len(s) + 1 - i]]
Max(S) == CHOOSE x \in S : \A y \in S : y <= x
Min(S) == CHOOSE x \in S : \A y \in S : x <= y

\* let x = v in F(x), with v evaluated once.
Bind(v, F(_)) == CHOOSE y \in {F(x) : x \in {v}} : TRUE

----------------------------------------------------------------------------
(* allocator.rs *)

\* a % m for a two-limb a
WMod(a, m) == (((a.hi % m) * (LIMB % m)) + a.lo) % m

\* add_alignment_padding, on a two-limb object_size
add_alignment_padding(object_size) ==
    LET align == ALIGN
    IN  IF WMod(object_size, align) = 0 THEN object_size
        ELSE WAdd(object_size, W(align - WMod(object_size, align)))

WIn(lo, w, hi) == WLe(lo, w) /\ WLe(w, hi)

\* A variant of get_for_size whose Small range starts at 0.
get_for_size_from_zero(object_size) ==
    IF WIn(W(0), object_size, W(SMALL_OBJECT_MAX)) THEN "Small"
    ELSE IF WIn(W(MEDIUM_OBJECT_MIN), object_size, W(MEDIUM_OBJECT_MAX)) THEN "Medium"
    ELSE IF WIn(W(LARGE_OBJECT_MIN), object_size, LARGE_OBJECT_MAX) THEN "Large"
    ELSE "BadRequest"

\* SizeClass::get_for_size: the size class, or "BadRequest" for Err(BadRequest)
get_for_size(object_size) ==
    IF WIn(W(SMALL_OBJECT_MIN), object_size, W(SMALL_OBJECT_MAX)) THEN "Small"
    ELSE IF WIn(W(MEDIUM_OBJECT_MIN), object_size, W(MEDIUM_OBJECT_MAX)) THEN "Medium"
    ELSE IF WIn(W(LARGE_OBJECT_MIN), object_size, LARGE_OBJECT_MAX) THEN "Large"
    ELSE "BadRequest"

----------------------------------------------------------------------------
(* block.rs *)

\* A usize given to Block::new is the set of the positions of its one bits, so
\* that every 64-bit size can be written down; Bits and Value convert the
\* sizes below 2^31.
USIZE_BITS == 64
Bits(n) == {k \in 0..30 : (n \div 2^k) % 2 = 1}
RECURSIVE Value(_)
Value(size) ==
    IF size = {} THEN 0
    ELSE LET k == CHOOSE i \in size : TRUE IN 2^k + Value(size \ {k})

\* usize::is_power_of_two: count_ones() == 1
IsPowerOfTwo(n) == Cardinality(n) = 1

\* Layout::from_size_align(size, align).is_ok(): align is a power of two (so
\* not zero), and size rounded up to a multiple of align does not exceed
\* isize::MAX.  The rounded size reaches 2^63 when size has bit 63, or has a
\* bit below align's and every bit from align's up to 62.
Layout_from_size_align(size, align) ==
    /\ IsPowerOfTwo(align)
    /\ LET k == CHOOSE i \in align : TRUE
       IN  ~(\/ (USIZE_BITS - 1) \in size
             \/ /\ \E i \in size : i < k
                /\ \A i \in k..(USIZE_BITS - 2) : i \in size)

\* A variant of Block::new that asks the OS without building the Layout.
Block_new_unchecked(size, os_ok, ptr) ==
    IF ~os_ok THEN [tag |-> "Err", err |-> "OOM"]
    ELSE [tag |-> "Ok", val |-> [size |-> size, ptr |-> ptr]]

\* Block::new: BadRequest when Layout::from_size_align(size, size) is an error;
\* os_ok is whether std::alloc::alloc returns a non-null pointer, ptr the
\* address it returns (aligned to size).
Block_new(size, os_ok, ptr) ==
    IF ~Layout_from_size_align(size, size) THEN [tag |-> "Err", err |-> "BadRequest"]
    ELSE IF ~os_ok THEN [tag |-> "Err", err |-> "OOM"]
    ELSE [tag |-> "Ok", val |-> [size |-> size, ptr |-> ptr]]

\* The n-th block the OS allocator hands out (n >= 1): no block is released
\* while the heap lives, so every block has an address of its own.
OsAddress(n) == n * BLOCK_SIZE

----------------------------------------------------------------------------
(* bump_block.rs *)

\* The metadata page of block b, bytes META_OFFSET + 0 .. META_OFFSET + 127: one
\* byte per line, the last one the whole-block mark.  Only FREE and MARKED are
\* ever written to it, so it is kept as b.marked, the set of the indices whose
\* byte is MARKED.
MetaIndex == 0..(META_SIZE - 1)

\* *self.block.as_ptr().add(constants::META_OFFSET + index)
MetaByte(b, index) == IF index \in b.marked THEN MARKED ELSE FREE

\* BumpBlock::current_hole_size
current_hole_size(b) == b.cursor - b.limit

\* A variant of reset that puts limit one line above the block's base.
reset_above_base(b) ==
    [b EXCEPT !.limit = b.block.ptr + LINE_SIZE,
              !.cursor = b.block.ptr + BLOCK_CAPACITY,
              !.marked = b.marked \ (0..127)]

\* A variant of reset that leaves the cursor at the limit, as test_reset sets
\* it before calling reset.
reset_cursor_at_limit(b) ==
    [b EXCEPT !.limit = b.block.ptr,
              !.cursor = b.block.ptr,
              !.marked = b.marked \ (0..127)]

\* A variant of reset that restores cursor and limit and leaves the marks.
reset_keep_marks(b) ==
    [b EXCEPT !.limit = b.block.ptr,
              !.cursor = b.block.ptr + BLOCK_CAPACITY]

\* BumpBlock::reset
reset(b) ==
    [b EXCEPT !.limit = b.block.ptr,
              !.cursor = b.block.ptr + BLOCK_CAPACITY,
              !.marked = b.marked \ (0..127)]

\* BumpBlock::new: Block::new(BLOCK_SIZE)?, then cursor and limit, then reset().
\* The fresh memory is uninitialised; reset() overwrites every metadata byte, so
\* the bytes the model starts from are never read.
BumpBlock_new(os_ok, ptr) ==
    LET r == Block_new(Bits(BLOCK_SIZE), os_ok, ptr)
    IN  IF r.tag = "Err" THEN r
        ELSE [tag |-> "Ok",
              val |-> reset([marked |-> MetaIndex,
                             cursor |-> r.val.ptr + BLOCK_CAPACITY,
                             limit |-> r.val.ptr,
                             block |-> r.val])]

\* A variant of the loop's iteration that starts the hole on the line right
\* above the MARKED one.
ScanLine_no_buffer(b, st, index, lines_required) ==
    IF MetaByte(b, index) = 0
    THEN IF index = 0 /\ st.count + 1 >= lines_required
         THEN [st EXCEPT !.ret = Some(<<st.end * LINE_SIZE, 0>>), !.count = st.count + 1]
         ELSE [st EXCEPT !.count = st.count + 1]
    ELSE IF st.count > lines_required
         THEN [st EXCEPT !.ret = Some(<<st.end * LINE_SIZE, (index + 1) * LINE_SIZE>>)]
         ELSE [st EXCEPT !.count = 0, !.end = index]

\* One iteration of the loop of find_next_available_hole, at line index: st
\* holds the loop's count and end, and st.ret what the loop has returned so far
\* (None while it runs).
ScanLine(b, st, index, lines_required) ==
    IF MetaByte(b, index) = 0
    THEN IF index = 0 /\ st.count + 1 >= lines_required
         THEN [st EXCEPT !.ret = Some(<<st.end * LINE_SIZE, 0>>),
                         !.count = st.count + 1]
         ELSE [st EXCEPT !.count = st.count + 1]
    ELSE IF st.count > lines_required
         THEN [st EXCEPT !.ret = Some(<<st.end * LINE_SIZE, (index + 2) * LINE_SIZE>>)]
         ELSE [st EXCEPT !.count = 0, !.end = index]

\* The iterations of the loop for the lines from hi down to lo, in this order,
\* stopping at the first one that returns.  The range is split in halves, so
\* that the evaluation nests 7 deep for 127 lines and not 127 deep.
RECURSIVE ScanRange(_, _, _, _, _)
ScanRange(b, st, hi, lo, lines_required) ==
    IF hi < lo \/ st.ret.tag = "Some" THEN st
    ELSE IF hi = lo THEN ScanLine(b, st, hi, lines_required)
    ELSE LET mid == (hi + lo) \div 2
         IN  Bind(ScanRange(b, st, hi, mid + 1, lines_required), LAMBDA upper :
                 ScanRange(b, upper, mid, lo, lines_required))

\* A variant of find_next_available_hole that rounds lines_required down.
find_next_available_hole_floor(b, starting_at, alloc_size) ==
    LET starting_line == starting_at \div LINE_SIZE
        lines_required == alloc_size \div LINE_SIZE
    IN  ScanRange(b, [ret |-> None, count |-> 0, end |-> starting_line],
                  starting_line - 1, 0, lines_required).ret

\* BumpBlock::find_next_available_hole
find_next_available_hole(b, starting_at, alloc_size) ==
    LET starting_line == starting_at \div LINE_SIZE
        lines_required == (alloc_size + LINE_SIZE - 1) \div LINE_SIZE
    IN  ScanRange(b, [ret |-> None, count |-> 0, end |-> starting_line],
                  starting_line - 1, 0, lines_required).ret

\* A variant of inner_alloc that commits without comparing next_ptr to limit.
inner_alloc_nolimit(b, alloc_size) ==
    IF b.cursor < alloc_size THEN [ret |-> None, b |-> b, depth |-> 1]
    ELSE LET next_ptr == AndAlignMask(b.cursor - alloc_size)
         IN  [ret |-> Some(next_ptr), b |-> [b EXCEPT !.cursor = next_ptr], depth |-> 1]

\* A variant of inner_alloc that hands out the cursor without moving it.
inner_alloc_stay(b, alloc_size) ==
    IF b.cursor - alloc_size < b.limit THEN [ret |-> None, b |-> b, depth |-> 1]
    ELSE [ret |-> Some(b.cursor), b |-> b, depth |-> 1]

\* A variant of inner_alloc that gives up after moving to the hole it found.
inner_alloc_no_retry(b, alloc_size) ==
    LET ptr == b.cursor
        limit == b.limit
    IN  IF ptr < alloc_size THEN [ret |-> None, b |-> b, depth |-> 1]
        ELSE
        LET next_ptr == AndAlignMask(ptr - alloc_size)
        IN  IF next_ptr < limit
            THEN LET block_relative_limit == b.limit - b.block.ptr
                     hole == find_next_available_hole(b, block_relative_limit, alloc_size)
                 IN  IF block_relative_limit > 0 /\ hole.tag = "Some"
                     THEN [ret |-> None,
                           b |-> [b EXCEPT !.cursor = b.block.ptr + hole.val[1],
                                           !.limit = b.block.ptr + hole.val[2]],
                           depth |-> 1]
                     ELSE [ret |-> None, b |-> b, depth |-> 1]
            ELSE [ret |-> Some(next_ptr), b |-> [b EXCEPT !.cursor = next_ptr], depth |-> 1]

\* BumpBlock::inner_alloc: the block afterwards, the Option returned, and
\* depth, the number of activations of inner_alloc the call took (1 when it
\* did not retry).
RECURSIVE inner_alloc(_, _)
inner_alloc(b, alloc_size) ==
    LET ptr == b.cursor
        limit == b.limit
    IN  IF ptr < alloc_size THEN [ret |-> None, b |-> b, depth |-> 1]   \* checked_sub(..)?
        ELSE
        LET next_ptr == AndAlignMask(ptr - alloc_size)
        IN  IF next_ptr < limit
            THEN LET block_relative_limit == b.limit - b.block.ptr
                     hole == find_next_available_hole(b, block_relative_limit, alloc_size)
                 IN  IF block_relative_limit > 0 /\ hole.tag = "Some"
                     THEN Bind(inner_alloc([b EXCEPT !.cursor = b.block.ptr + hole.val[1],
                                                     !.limit = b.block.ptr + hole.val[2]],
                                           alloc_size),
                               LAMBDA retry : [retry EXCEPT !.depth = @ + 1])
                     ELSE [ret |-> None, b |-> b, depth |-> 1]
            ELSE [ret |-> Some(next_ptr), b |-> [b EXCEPT !.cursor = next_ptr], depth |-> 1]

\* A variant of mark_line without the check of line_num.
mark_line_unchecked(b, line_num) ==
    [b |-> [b EXCEPT !.marked = b.marked \cup {line_num}], panic |-> FALSE]

\* BumpBlock::mark_line: the block afterwards, and whether the call panicked.
mark_line(b, line_num) ==
    IF LINE_COUNT <= line_num
    THEN [b |-> b, panic |-> TRUE]
    ELSE [b |-> [b EXCEPT !.marked = b.marked \cup {line_num}], panic |-> FALSE]

\* BumpBlock::mark_block: the byte at BLOCK_SIZE - 1 = META_OFFSET + 127
mark_block(b) == [b EXCEPT !.marked = b.marked \cup {BLOCK_SIZE - 1 - META_OFFSET}]

----------------------------------------------------------------------------
(* heap.rs: BlockList *)

\* BlockList::new
BlockList_new ==
    [head |-> None, overflow |-> None,
     free |-> <<>>, recycle |-> <<>>, used |-> <<>>, large |-> <<>>]

\* BlockList::block_count
block_count(bl) ==
    (IF bl.head.tag = "Some" THEN 1 ELSE 0)
    + (IF bl.overflow.tag = "Some" THEN 1 ELSE 0)
    + Len(bl.free) + Len(bl.recycle) + Len(bl.used)

\* Vec::pop on a non-empty vector: the vector left and the element popped.
Pop(v) == [rest |-> SubSeq(v, 1, Len(v) - 1), top |-> v[Len(v)]]

\* The OS allocator as one call sees it: env.created blocks handed out so far,
\* env.os_ok whether it grants another one.  It never grants more than
\* MaxBlocks.
HeapBumpBlock_new(env) ==
    LET r == BumpBlock_new(env.os_ok /\ env.created < MaxBlocks, OsAddress(env.created + 1))
    IN  IF r.tag = "Err"
        THEN [tag |-> "Err", err |-> r.err, env |-> env]
        ELSE [tag |-> "Ok", val |-> r.val, env |-> [env EXCEPT !.created = @ + 1]]

\* BlockList::get_free_block
get_free_block(bl, env) ==
    IF bl.free # <<>>
    THEN [tag |-> "Ok", val |-> Pop(bl.free).top,
          bl |-> [bl EXCEPT !.free = Pop(bl.free).rest], env |-> env]
    ELSE LET r == HeapBumpBlock_new(env)
         IN  IF r.tag = "Err" THEN [tag |-> "Err", err |-> r.err, bl |-> bl, env |-> env]
             ELSE [tag |-> "Ok", val |-> r.val, bl |-> bl, env |-> r.env]

\* A variant of get_recycle_block that leaves recycle alone.
get_recycle_block_skip(bl, env) == get_free_block(bl, env)

\* BlockList::get_recycle_block
get_recycle_block(bl, env) ==
    IF bl.recycle # <<>>
    THEN [tag |-> "Ok", val |-> Pop(bl.recycle).top,
          bl |-> [bl EXCEPT !.recycle = Pop(bl.recycle).rest], env |-> env]
    ELSE get_free_block(bl, env)

\* What find_space and overflow_alloc return, the block list and the OS as they
\* leave them, and depth, the number of activations of find_space the call
\* took (1 when it did not recurse).
Ok(bl, env, space) ==
    [tag |-> "Ok", val |-> space, err |-> "none", depth |-> 1, bl |-> bl, env |-> env]
Err(bl, env, e) ==
    [tag |-> "Err", val |-> 0, err |-> e, depth |-> 1, bl |-> bl, env |-> env]
\* A failed assert! or an unwrap() of None
Panic(bl, env) ==
    [tag |-> "Panic", val |-> 0, err |-> "none", depth |-> 1, bl |-> bl, env |-> env]

\* A variant of the empty-overflow arm that allocates in the new block and
\* never stores it in self.overflow.
overflow_alloc_empty_dropped(bl, alloc_size, env) ==
    Bind(get_free_block(bl, env), LAMBDA g :
        IF g.tag = "Err" THEN Err(bl, env, g.err)
        ELSE Bind(inner_alloc(g.val, alloc_size), LAMBDA r :
                 IF r.ret.tag = "None" THEN Panic(g.bl, g.env)
                 ELSE Ok(g.bl, g.env, r.ret.val)))

\* BlockList::overflow_alloc, the arm for self.overflow == None
overflow_alloc_empty(bl, alloc_size, env) ==
    Bind(get_free_block(bl, env), LAMBDA g :
        IF g.tag = "Err" THEN Err(bl, env, g.err)
        ELSE Bind(inner_alloc(g.val, alloc_size), LAMBDA r :
                 IF r.ret.tag = "None" THEN Panic(g.bl, g.env)
                 ELSE Ok([g.bl EXCEPT !.overflow = Some(r.b)], g.env, r.ret.val)))

\* A variant of the overflow replacement that drops the displaced block instead
\* of pushing it onto recycle.
ReplaceOverflow_drop_previous(bl, free_block, previous) ==
    [bl EXCEPT !.overflow = Some(free_block)]

\* The overflow replacement of overflow_alloc: replace(overflow, free_block),
\* then recycle.push(previous).
ReplaceOverflow(bl, free_block, previous) ==
    [bl EXCEPT !.overflow = Some(free_block),
               !.recycle = Append(bl.recycle, previous)]

\* BlockList::overflow_alloc
overflow_alloc(bl, alloc_size, env) ==
    IF ~(alloc_size <= BLOCK_CAPACITY) THEN Panic(bl, env)
    ELSE IF bl.overflow.tag = "Some"
    THEN Bind(inner_alloc(bl.overflow.val, alloc_size), LAMBDA r :
             IF r.ret.tag = "Some"
             THEN Ok([bl EXCEPT !.overflow = Some(r.b)], env, r.ret.val)
             ELSE Bind(get_free_block(bl, env), LAMBDA g :
                      IF g.tag = "Err" THEN Err(bl, env, g.err)
                      ELSE LET previous == r.b
                               bl2 == ReplaceOverflow(g.bl, g.val, previous)
                           IN  Bind(inner_alloc(g.val, alloc_size), LAMBDA r2 :
                                   IF r2.ret.tag = "None" THEN Panic(bl2, g.env)
                                   ELSE Ok([bl2 EXCEPT !.overflow = Some(r2.b)],
                                           g.env, r2.ret.val))))
    ELSE overflow_alloc_empty(bl, alloc_size, env)

----------------------------------------------------------------------------
(* heap.rs: ZapHeap *)

\* A variant of the head rotation that puts the block taken onto used and
\* keeps the old head.
RotateHead_keep_head(bl, free_block) ==
    [bl EXCEPT !.used = Append(bl.used, free_block)]

\* A variant of the head rotation that drops the old head instead of pushing
\* it onto used.
RotateHead_drop_previous(bl, free_block) ==
    [bl EXCEPT !.head = Some(free_block)]

\* The head rotation of find_space: replace(head, free_block), then
\* used.push(previous).
RotateHead(bl, free_block) ==
    [bl EXCEPT !.head = Some(free_block), !.used = Append(bl.used, bl.head.val)]

\* A variant of the test below that sends nothing to the overflow block.
SendToOverflow_never(head, alloc_size, size_class) == FALSE

\* size_class == SizeClass::Medium && alloc_size > head.current_hole_size()
SendToOverflow(head, alloc_size, size_class) ==
    size_class = "Medium" /\ alloc_size > current_hole_size(head)

\* ZapHeap::find_space; alloc_size is a two-limb value.
RECURSIVE find_space(_, _, _, _)
find_space(bl, alloc_size, size_class, env) ==
    IF size_class = "Large" THEN Err(bl, env, "BadRequest")
    ELSE IF bl.head.tag = "Some"
    THEN IF SendToOverflow(bl.head.val, WInt(alloc_size), size_class)
         THEN overflow_alloc(bl, WInt(alloc_size), env)
         ELSE Bind(inner_alloc(bl.head.val, WInt(alloc_size)), LAMBDA r :
                  IF r.ret.tag = "Some"
                  THEN Ok([bl EXCEPT !.head = Some(r.b)], env, r.ret.val)
                  ELSE Bind(get_recycle_block(bl, env), LAMBDA g :
                           IF g.tag = "Err" THEN Err(bl, env, g.err)
                           ELSE Bind(RotateHead(g.bl, g.val), LAMBDA bl2 :
                                    Bind(find_space(bl2, alloc_size, size_class, g.env),
                                         LAMBDA again : [again EXCEPT !.depth = @ + 1]))))
    ELSE Bind(get_free_block(bl, env), LAMBDA g :
             IF g.tag = "Err" THEN Err(bl, env, g.err)
             ELSE Bind(inner_alloc(g.val, WInt(alloc_size)), LAMBDA r :
                      IF r.ret.tag = "None" THEN Panic(g.bl, g.env)
                      ELSE Ok([g.bl EXCEPT !.head = Some(r.b)], g.env, r.ret.val)))

\* object_size as ArraySize: the low 32 bits
AsU32(w) == [hi |-> w.hi % LIMB, lo |-> w.lo]

\* ZapHeap::get_header: the object pointer cast to *Header, offset(-1)
get_header(object) == object - hsize

\* A variant of get_object that steps over the padded header.
get_object_padded(header) == header + WInt(add_alignment_padding(W(hsize)))

\* ZapHeap::get_object: the header pointer, offset(1)
get_object(header) == header + hsize

\* No alloc / alloc_array call has been made yet.
NoHeader == [size |-> W(0), size_class |-> "none", mark |-> "none", type_id |-> "none"]

NoCall ==
    [size |-> W(0), ptr |-> 0, err |-> "none", alloc_size |-> W(0), depth |-> 0,
     space |-> 0, header |-> NoHeader, op |-> "none", res |-> "none"]

\* What a call returns and, when it succeeds, what it wrote: the header at
\* space, the payload of size bytes at ptr; depth is the number of activations
\* of find_space it took.
CallResult(op, r, alloc_size, size, ptr, header) ==
    [size |-> size,
     ptr |-> IF r.tag = "Ok" THEN ptr ELSE 0,
     err |-> r.err, alloc_size |-> alloc_size, depth |-> r.depth,
     space |-> IF r.tag = "Ok" THEN r.val ELSE 0,
     header |-> IF r.tag = "Ok" THEN header ELSE NoHeader,
     op |-> op, res |-> r.tag]

\* A call that returned Err(BadRequest) from get_for_size(..)?
BadRequestResult(op, alloc_size, size) ==
    [size |-> size, ptr |-> 0, err |-> "BadRequest", alloc_size |-> alloc_size,
     depth |-> 0, space |-> 0, header |-> NoHeader, op |-> op, res |-> "Err"]

\* The calls so far: uniform while every call since ZapHeap::new succeeded with
\* the same alloc_size a, n of them.
NoRun == [n |-> 0, a |-> 0, uniform |-> TRUE]

RunAfter(h, l) ==
    IF l.res = "Ok" /\ h.uniform /\ (h.n = 0 \/ h.a = WInt(l.alloc_size))
    THEN [n |-> h.n + 1, a |-> WInt(l.alloc_size), uniform |-> TRUE]
    ELSE [n |-> 0, a |-> 0, uniform |-> FALSE]

\* The bytes handed out so far, as the set of the maximal intervals <<lo, hi>>
\* (lo inclusive, hi exclusive) they form; overlap tells whether some call
\* handed out a byte an earlier call had handed out.
NoneGiven == [ranges |-> {}, overlap |-> FALSE]

Overlaps(ranges, lo, hi) == \E i \in ranges : i[1] < hi /\ lo < i[2]

Merge(ranges, lo, hi) ==
    LET touching == {i \in ranges : i[1] <= hi /\ lo <= i[2]}
    IN  (ranges \ touching)
        \cup {<<Min({lo} \cup {i[1] : i \in touching}),
                Max({hi} \cup {i[2] : i \in touching})>>}

\* After a call l: a successful one hands out [space, space + alloc_size).
GivenAfter(g, l) ==
    IF l.res = "Ok"
    THEN [ranges |-> Merge(g.ranges, l.space, l.space + WInt(l.alloc_size)),
          overlap |-> g.overlap \/ Overlaps(g.ranges, l.space, l.space + WInt(l.alloc_size))]
    ELSE g

\* ZapHeap::alloc of an object of type T with size_of::<T>() = object_size
alloc(bl, object_size, env) ==
    LET header_size == W(hsize)
        header_alloc_size == add_alignment_padding(header_size)
        total_size == WAdd(header_alloc_size, object_size)
        alloc_size == add_alignment_padding(total_size)
        size_class == get_for_size(alloc_size)
    IN  IF size_class = "BadRequest"
        THEN [last |-> BadRequestResult("alloc", alloc_size, object_size),
              bl |-> bl, env |-> env]
        ELSE Bind(find_space(bl, alloc_size, size_class, env), LAMBDA r :
                 LET header == [size |-> AsU32(object_size), size_class |-> size_class,
                                mark |-> "Allocated", type_id |-> "Object"]
                     object_space == r.val + WInt(header_alloc_size)
                 IN  [last |-> CallResult("alloc", r, alloc_size, object_size,
                                          object_space, header),
                      bl |-> r.bl, env |-> r.env])

\* A variant of array_space that starts the array at the header.
array_space_at_header(space, header_size) == space

\* let array_space = space.offset(header_size as isize): where alloc_array
\* puts the array, zeroes size_bytes bytes and points the RawPtr it returns.
array_space_of(space, header_size) == space + header_size

\* ZapHeap::alloc_array
alloc_array(bl, size_bytes, env) ==
    LET header_size == W(hsize)
        header_alloc_size == add_alignment_padding(header_size)
        total_size == WAdd(header_alloc_size, size_bytes)
        alloc_size == add_alignment_padding(total_size)
        size_class == get_for_size(alloc_size)
    IN  IF size_class = "BadRequest"
        THEN [last |-> BadRequestResult("alloc_array", alloc_size, size_bytes),
              bl |-> bl, env |-> env]
        ELSE Bind(find_space(bl, alloc_size, size_class, env), LAMBDA r :
                 LET header == [size |-> size_bytes, size_class |-> size_class,
                                mark |-> "Allocated", type_id |-> "Array"]
                     array_space == array_space_of(r.val, WInt(header_size))
                 IN  [last |-> CallResult("alloc_array", r, alloc_size, size_bytes,
                                          array_space, header),
                      bl |-> r.bl, env |-> r.env])

----------------------------------------------------------------------------
(* The heap driven by alloc and alloc_array. *)

\* size_of::<H>() of the header types the heap is instantiated with: a
\* zero-sized header, one whose size is not a multiple of ALIGN (padded to 104),
\* and two that need no padding, the second a whole line.
HeaderSizes == {0, 100, 120, 128}

\* size_of::<T>() of the objects given to alloc: a zero-sized type (a Small
\* allocation of the padded header alone, or of nothing under the zero-sized
\* header), one that makes a Medium allocation of about half a block, one that
\* makes a Large one.
ObjectSizes == {W(0), W(8000), W(8200)}

\* size_bytes given to alloc_array (a u32): the empty array and u32::MAX.
ArraySizes == {W(0), MAX_ALLOC_SIZE}

BBIdle ==
    /\ bb = None
    /\ ret = [panic |-> FALSE, op |-> "new", res |-> None, arg |-> 0, prev |-> None]

\* ZapHeap::<H>::new()
Init ==
    /\ hsize \in HeaderSizes
    /\ blocks = BlockList_new
    /\ created = 0
    /\ last = NoCall
    /\ hist = NoRun
    /\ given = NoneGiven
    /\ BBIdle

Alloc ==
    \E object_size \in ObjectSizes, os_ok \in BOOLEAN :
        \E r \in {alloc(blocks, object_size, [created |-> created, os_ok |-> os_ok])} :
            /\ blocks' = r.bl
            /\ created' = r.env.created
            /\ last' = r.last
            /\ hist' = RunAfter(hist, r.last)
            /\ given' = GivenAfter(given, r.last)
            /\ UNCHANGED <<hsize, bb, ret>>

AllocArray ==
    \E size_bytes \in ArraySizes, os_ok \in BOOLEAN :
        \E r \in {alloc_array(blocks, size_bytes, [created |-> created, os_ok |-> os_ok])} :
            /\ blocks' = r.bl
            /\ created' = r.env.created
            /\ last' = r.last
            /\ hist' = RunAfter(hist, r.last)
            /\ given' = GivenAfter(given, r.last)
            /\ UNCHANGED <<hsize, bb, ret>>

Next == Alloc \/ AllocArray

Spec == Init /\ [][Next]_vars

\* The heap driven by alloc_array alone, with an array that is not empty among
\* the sizes (a Medium allocation of about half a block).
FilledArraySizes == {W(0), W(8000), MAX_ALLOC_SIZE}

AllocFilledArray ==
    \E size_bytes \in FilledArraySizes, os_ok \in BOOLEAN :
        \E r \in {alloc_array(blocks, size_bytes, [created |-> created, os_ok |-> os_ok])} :
            /\ blocks' = r.bl
            /\ created' = r.env.created
            /\ last' = r.last
            /\ hist' = RunAfter(hist, r.last)
            /\ given' = GivenAfter(given, r.last)
            /\ UNCHANGED <<hsize, bb, ret>>

ArrayNext == AllocFilledArray

ArraySpec == Init /\ [][ArrayNext]_vars

\* The heap under header types that leave room in a block after two Medium
\* objects: 96 bytes under the header of 80, where one more Small object of 80
\* fits, and 48 bytes under the header of 100, where none of 104 does.
ReuseHeaderSizes == {80, 100}

ReuseInit ==
    /\ hsize \in ReuseHeaderSizes
    /\ blocks = BlockList_new
    /\ created = 0
    /\ last = NoCall
    /\ hist = NoRun
    /\ given = NoneGiven
    /\ BBIdle

ReuseSpec == ReuseInit /\ [][Next]_vars

----------------------------------------------------------------------------
(* A stand-alone bump block driven by its public operations. *)

\* alloc_size arguments given to inner_alloc: zero, sizes that need padding,
\* whole lines, half a block, the whole capacity, more than any address.
InnerSizes == {0, 128, 8190, BLOCK_CAPACITY, 2^30}

\* line_num arguments given to mark_line, the last one out of range.
MarkLines == {0, 1, LINE_COUNT - 1, LINE_COUNT}

HeapIdle ==
    /\ hsize = 0
    /\ blocks = BlockList_new
    /\ created = 0
    /\ last = NoCall
    /\ hist = NoRun
    /\ given = NoneGiven

BBInit ==
    /\ HeapIdle
    /\ \E k \in 1..MaxBlocks : bb = Some(BumpBlock_new(TRUE, OsAddress(k)).val)
    /\ ret = [panic |-> FALSE, op |-> "new", res |-> None, arg |-> 0, prev |-> None]

\* let b = BumpBlock::new(): the block is replaced by a new one, unless the OS
\* allocation fails.
BBNew ==
    \E k \in 1..MaxBlocks, os_ok \in BOOLEAN :
        \E r \in {BumpBlock_new(os_ok, OsAddress(k))} :
            /\ bb' = IF r.tag = "Ok" THEN Some(r.val) ELSE bb
            /\ ret' = [panic |-> FALSE, op |-> "new",
                       res |-> IF r.tag = "Ok" THEN None ELSE Some(0), arg |-> 0,
                       prev |-> IF r.tag = "Ok" THEN None ELSE ret.prev]
            /\ UNCHANGED <<hsize, blocks, created, last, hist, given>>

BBInnerAlloc ==
    \E alloc_size \in InnerSizes :
        \E r \in {inner_alloc(bb.val, alloc_size)} :
            /\ bb' = Some(r.b)
            /\ ret' = [panic |-> FALSE, op |-> "inner_alloc", res |-> r.ret,
                       arg |-> alloc_size,
                       prev |-> IF r.ret.tag = "Some" /\ alloc_size >= 1
                                THEN r.ret ELSE ret.prev]
            /\ UNCHANGED <<hsize, blocks, created, last, hist, given>>

BBMarkLine ==
    \E line_num \in MarkLines :
        \E r \in {mark_line(bb.val, line_num)} :
            /\ bb' = Some(r.b)
            /\ ret' = [panic |-> r.panic, op |-> "mark_line", res |-> None,
                       arg |-> line_num, prev |-> ret.prev]
            /\ UNCHANGED <<hsize, blocks, created, last, hist, given>>

BBMarkBlock ==
    /\ bb' = Some(mark_block(bb.val))
    /\ ret' = [panic |-> FALSE, op |-> "mark_block", res |-> None, arg |-> 0,
               prev |-> ret.prev]
    /\ UNCHANGED <<hsize, blocks, created, last, hist, given>>

\* b.reset(); ret.arg keeps the hole size and the number of marks the block
\* had before the call.
BBReset ==
    /\ bb' = Some(reset(bb.val))
    /\ ret' = [panic |-> FALSE, op |-> "reset", res |-> None,
               arg |-> <<current_hole_size(bb.val), Cardinality(bb.val.marked)>>,
               prev |-> None]
    /\ UNCHANGED <<hsize, blocks, created, last, hist, given>>

BBNext == BBNew \/ BBInnerAlloc \/ BBMarkLine \/ BBMarkBlock \/ BBReset

BlockSpec == BBInit /\ [][BBNext]_vars

----------------------------------------------------------------------------
(* find_next_available_hole applied to a block with lines marked, as the    *)
(* tests of bump_block.rs apply it: a new block, mark_line calls, then the  *)
(* search.                                                                  *)

\* The lines marked by the loops of test_find_hole_all_conservatively_marked
\* and test_find_next_hole_at_block_end.
EvenLines == {i \in 0..(LINE_COUNT - 1) : i % 2 = 0}
UpperHalf == (LINE_COUNT \div 2)..(LINE_COUNT - 1)

\* The lines mark_line is called on one at a time.
HoleLines == {0, 1, 2, 3, 4, 5, 10}

\* starting_at and alloc_size arguments of the search.
HoleStarts == {0, 3 * LINE_SIZE, 10 * LINE_SIZE, 10 * LINE_SIZE + 20, BLOCK_CAPACITY}
HoleSizes == {0, 1, LINE_SIZE, LINE_SIZE + 1, 4 * LINE_SIZE, BLOCK_CAPACITY}

HSInit ==
    /\ HeapIdle
    /\ \E lines \in {{}, EvenLines, UpperHalf} :
          bb = Some([BumpBlock_new(TRUE, OsAddress(1)).val EXCEPT !.marked = lines])
    /\ ret = [panic |-> FALSE, op |-> "new", res |-> None, arg |-> 0, prev |-> None]

HSMarkLine ==
    \E line_num \in HoleLines :
        \E r \in {mark_line(bb.val, line_num)} :
            /\ bb' = Some(r.b)
            /\ ret' = [panic |-> r.panic, op |-> "mark_line", res |-> None,
                       arg |-> line_num, prev |-> None]
            /\ UNCHANGED <<hsize, blocks, created, last, hist, given>>

\* let got = block.find_next_available_hole(starting_at, alloc_size)
HSFindHole ==
    \E starting_at \in HoleStarts, alloc_size \in HoleSizes :
        /\ ret' = [panic |-> FALSE, op |-> "find_next_available_hole",
                   res |-> find_next_available_hole(bb.val, starting_at, alloc_size),
                   arg |-> <<starting_at, alloc_size>>, prev |-> None]
        /\ UNCHANGED <<hsize, blocks, created, last, hist, given, bb>>

\* The block with the hole it allocates from used up at starting_at:
\* block.cursor = block.limit = base + starting_at.
HoleUsedUp(b, starting_at) ==
    [b EXCEPT !.cursor = b.block.ptr + starting_at, !.limit = b.block.ptr + starting_at]

\* inner_alloc(alloc_size) applied to the block with its hole used up at
\* starting_at, so that the call has to search the line marks below.  The
\* outcome (pointer, block afterwards, depth) is kept in ret; bb stays the
\* block the searches are applied to.
HSInnerAlloc ==
    \E starting_at \in HoleStarts, alloc_size \in HoleSizes :
        /\ ret' = [panic |-> FALSE, op |-> "inner_alloc",
                   res |-> inner_alloc(HoleUsedUp(bb.val, starting_at), alloc_size),
                   arg |-> <<starting_at, alloc_size>>, prev |-> None]
        /\ UNCHANGED <<hsize, blocks, created, last, hist, given, bb>>

HSNext == HSMarkLine \/ HSFindHole

HoleSpec == HSInit /\ [][HSNext]_vars

\* The same blocks with inner_alloc in place of the bare search.
RetryNext == HSMarkLine \/ HSInnerAlloc

RetrySpec == HSInit /\ [][RetryNext]_vars

----------------------------------------------------------------------------
(* Block::new applied to sizes of every kind, as the tests of block.rs     *)
(* apply it.                                                                *)

\* The OS can hand out a block of up to 2^OsSizeBits bytes (the largest size
\* block_size_must_be_power_of_2 asks for is 2^24); a larger request gets a
\* null pointer.
OsSizeBits == 24

\* Every power of two of a usize, zero, sums of two powers of two (3 is the
\* size of the test bad_request), and usize::MAX.
SumBits == {0, 1, 2, 10, 62, 63}
BlockSizes ==
    {{k} : k \in 0..(USIZE_BITS - 1)}
    \cup {{}}
    \cup {{j, k} : j, k \in SumBits}
    \cup {0..(USIZE_BITS - 1)}

OsAnswers(size) == IF \A i \in size : i <= OsSizeBits THEN BOOLEAN ELSE {FALSE}

BNInit ==
    /\ HeapIdle
    /\ bb = None
    /\ ret = [panic |-> FALSE, op |-> "idle", res |-> None, arg |-> 0, prev |-> None]

\* let result = Block::new(size)
BNNew ==
    \E size \in BlockSizes :
        \E os_ok \in OsAnswers(size) :
            /\ ret' = [panic |-> FALSE, op |-> "Block::new",
                       res |-> Block_new(size, os_ok, IF os_ok THEN Value(size) ELSE 0),
                       arg |-> <<size, os_ok>>, prev |-> None]
            /\ UNCHANGED <<hsize, blocks, created, last, hist, given, bb>>

BNNext == BNNew

NewSpec == BNInit /\ [][BNNext]_vars

----------------------------------------------------------------------------
(* Properties of Block::new. *)

BlockAsked == ret.op = "Block::new"

\* C18, as stated: Block::new(size) returns BadRequest when size is zero or
\* not a power of two, and for every power-of-two size a block whose size()
\* is the requested size, or OOM when the OS allocation fails.
C18_PowerOfTwoGivesBlock ==
    BlockAsked =>
        LET size == ret.arg[1]
            os_ok == ret.arg[2]
        IN  IF ~IsPowerOfTwo(size)
            THEN ret.res = [tag |-> "Err", err |-> "BadRequest"]
            ELSE IF os_ok
                 THEN ret.res.tag = "Ok" /\ ret.res.val.size = size
                 ELSE ret.res = [tag |-> "Err", err |-> "OOM"]

\* C18, amended: the same for the powers of two up to 2^62; for 2^63, which
\* no Layout can hold, Block::new returns BadRequest too.
C18_PowerOfTwoUpToIsizeGivesBlock ==
    BlockAsked =>
        LET size == ret.arg[1]
            os_ok == ret.arg[2]
        IN  IF ~IsPowerOfTwo(size) \/ size = {USIZE_BITS - 1}
            THEN ret.res = [tag |-> "Err", err |-> "BadRequest"]
            ELSE IF os_ok
                 THEN ret.res.tag = "Ok" /\ ret.res.val.size = size
                 ELSE ret.res = [tag |-> "Err", err |-> "OOM"]

\* C18's case: the last size of block_size_must_be_power_of_2, 2^24, gives a
\* block of that size.
C18_Witness ==
    /\ BlockAsked
    /\ ret.arg = <<{24}, TRUE>>
    /\ ret.res.tag = "Ok" /\ ret.res.val.size = {24}

----------------------------------------------------------------------------
(* Properties of the stand-alone bump block. *)

\* C1: for every bump block, in every state reachable through new, inner_alloc,
\* mark_line, mark_block and reset,
\* block_base <= limit <= cursor <= block_base + BLOCK_CAPACITY.
C1_CursorWithinHole ==
    bb.tag = "Some" =>
        /\ bb.val.block.ptr <= bb.val.limit
        /\ bb.val.limit <= bb.val.cursor
        /\ bb.val.cursor <= bb.val.block.ptr + BLOCK_CAPACITY

\* C1's case: an inner_alloc that failed on a partly used block with a marked
\* line, after which the three bounds still hold with a small hole left.
C1_Witness ==
    /\ ret.op = "inner_alloc" /\ ret.res.tag = "None" /\ ret.arg = 8190
    /\ bb.val.marked # {}
    /\ current_hole_size(bb.val) = LINE_SIZE

\* The bytes of line i of block b.
LineRange(b, i) == (b.block.ptr + i * LINE_SIZE)..(b.block.ptr + (i + 1) * LINE_SIZE - 1)

\* C2: no range [p, p + alloc_size) returned by inner_alloc intersects a line
\* whose mark byte is MARKED at the time of the call.
C2_AllocSkipsMarkedLines ==
    (ret.op = "inner_alloc" /\ ret.res.tag = "Some") =>
        \A i \in 0..(LINE_COUNT - 1) :
            MetaByte(bb.val, i) = MARKED =>
                \A a \in LineRange(bb.val, i) :
                    ~(ret.res.val <= a /\ a < ret.res.val + ret.arg)

\* C5: a successful inner_alloc of size s on a block whose hole is h leaves
\* current_hole_size() = h - round_up(s, ALIGN) and returns the new cursor.
C5_HoleShrinksByPaddedSize ==
    [][(ret'.op = "inner_alloc" /\ ret'.res.tag = "Some") =>
          /\ current_hole_size(bb'.val)
                = current_hole_size(bb.val) - WInt(add_alignment_padding(W(ret'.arg)))
          /\ ret'.res.val = bb'.val.cursor]_vars

\* C5's case: a successful inner_alloc of a size that needs padding, on a block
\* that was already partly used.
C5_Witness ==
    /\ ret.op = "inner_alloc" /\ ret.res.tag = "Some" /\ ret.arg = 8190
    /\ current_hole_size(bb.val) < BLOCK_CAPACITY - 8192

\* C12: successive pointers returned by inner_alloc (alloc_size >= 1) on the
\* same block, with no reset in between and with any mark_line calls
\* interleaved, are strictly decreasing in address.
C12_PointersStrictlyDecrease ==
    [][(/\ ret'.op = "inner_alloc" /\ ret'.arg >= 1 /\ ret'.res.tag = "Some"
        /\ ret.prev.tag = "Some")
          => ret'.res.val < ret.prev.val]_vars

\* C12's case: a second pointer was returned by inner_alloc(128) on a block
\* with a line marked by mark_line since its last reset.
C12_Witness ==
    /\ ret.op = "inner_alloc" /\ ret.arg = 128 /\ ret.res.tag = "Some"
    /\ ret.res.val < bb.val.block.ptr + BLOCK_CAPACITY - 128
    /\ ret.prev = ret.res
    /\ bb.val.marked \cap (0..(LINE_COUNT - 1)) # {}

\* The state of a block at address ptr as BumpBlock::new leaves it.
Fresh(ptr) ==
    [marked |-> {}, cursor |-> ptr + BLOCK_CAPACITY, limit |-> ptr,
     block |-> [size |-> Bits(BLOCK_SIZE), ptr |-> ptr]]

\* C14: a freshly created bump block, and any bump block immediately after
\* reset, has limit = block_base, cursor = block_base + BLOCK_CAPACITY
\* (current_hole_size() = BLOCK_CAPACITY), every line mark FREE and the
\* whole-block mark FREE; an inner_alloc after reset behaves as on a fresh
\* block.
C14_ResetRestoresFreshBlock ==
    ((ret.op = "new" /\ ret.res = None) \/ ret.op = "reset") =>
        /\ bb.val.limit = bb.val.block.ptr
        /\ bb.val.cursor = bb.val.block.ptr + BLOCK_CAPACITY
        /\ current_hole_size(bb.val) = BLOCK_CAPACITY
        /\ \A i \in 0..(LINE_COUNT - 1) : MetaByte(bb.val, i) = FREE
        /\ MetaByte(bb.val, BLOCK_SIZE - 1 - META_OFFSET) = FREE
        /\ \A alloc_size \in InnerSizes :
              inner_alloc(bb.val, alloc_size)
                = inner_alloc(Fresh(bb.val.block.ptr), alloc_size)

\* C14's case: reset of a block that was partly used and had marks.
C14_Witness ==
    /\ ret.op = "reset"
    /\ ret.arg[1] < BLOCK_CAPACITY /\ ret.arg[2] >= 2
    /\ current_hole_size(bb.val) = BLOCK_CAPACITY

\* C15: mark_line(i) with i < LINE_COUNT sets mark byte i to MARKED and leaves
\* every other mark byte, the whole-block mark, cursor and limit unchanged;
\* mark_line(i) with i >= LINE_COUNT panics without changing any mark byte.
C15_MarkLineSetsOneByte ==
    [][ret'.op = "mark_line" =>
          IF ret'.arg < LINE_COUNT
          THEN /\ ~ret'.panic
               /\ MetaByte(bb'.val, ret'.arg) = MARKED
               /\ \A i \in MetaIndex \ {ret'.arg} :
                     MetaByte(bb'.val, i) = MetaByte(bb.val, i)
               /\ bb'.val.cursor = bb.val.cursor
               /\ bb'.val.limit = bb.val.limit
          ELSE /\ ret'.panic
               /\ \A i \in MetaIndex : MetaByte(bb'.val, i) = MetaByte(bb.val, i)]_vars

\* C15's case: mark_line(LINE_COUNT) panicked on a block whose last line is
\* marked.
C15_Witness ==
    /\ ret.op = "mark_line" /\ ret.arg = LINE_COUNT /\ ret.panic
    /\ MetaByte(bb.val, LINE_COUNT - 1) = MARKED
    /\ MetaByte(bb.val, LINE_COUNT) = FREE

\* C21: in every state reachable from BumpBlock::new through inner_alloc,
\* mark_line, mark_block and reset, limit is the block's base, so no
\* inner_alloc takes the hole-finding branch (every call is done in one
\* activation) and the current hole is [block_base, cursor).
C21_LimitStaysAtBase ==
    bb.tag = "Some" =>
        /\ bb.val.limit = bb.val.block.ptr
        /\ current_hole_size(bb.val) = bb.val.cursor - bb.val.block.ptr
        /\ \A alloc_size \in InnerSizes :
              /\ inner_alloc(bb.val, alloc_size).depth = 1
              /\ inner_alloc(bb.val, alloc_size).b.limit = bb.val.block.ptr

\* C21's case: an inner_alloc that did not fit above limit, on a block with a
\* free line below a marked one, and limit is still the base.
C21_Witness ==
    /\ ret.op = "inner_alloc" /\ ret.res.tag = "None" /\ ret.arg = BLOCK_CAPACITY
    /\ 1 \in bb.val.marked /\ 0 \notin bb.val.marked
    /\ bb.val.cursor > bb.val.block.ptr + 2 * LINE_SIZE
    /\ bb.val.limit = bb.val.block.ptr

----------------------------------------------------------------------------
(* Properties of find_next_available_hole. *)

\* The last call was find_next_available_hole(starting_at, alloc_size).
Searched == ret.op = "find_next_available_hole"
starting_at == ret.arg[1]
searched_size == ret.arg[2]
starting_line == starting_at \div LINE_SIZE
lines_required == (searched_size + LINE_SIZE - 1) \div LINE_SIZE


\* The lines below starting_line fall into runs of consecutive FREE lines; a
\* run ends (exclusively) at starting_line or at a MARKED line, and starts
\* above the next MARKED line below, or at line 0.
MarkedBelow(line) == {m \in bb.val.marked : m < line}
RunEnds == {starting_line} \cup MarkedBelow(starting_line)
RunStart(end) == IF MarkedBelow(end) = {} THEN 0 ELSE Max(MarkedBelow(end)) + 1

\* A run the search accepts: one closed below by a MARKED line with strictly
\* more than lines_required lines, or one that reaches line 0 with at least
\* lines_required lines.
Accepted(end) ==
    /\ RunStart(end) < end
    /\ IF RunStart(end) = 0
       THEN end - RunStart(end) >= lines_required
       ELSE end - RunStart(end) > lines_required

\* What the search gives for the accepted run ending at end; the MARKED line
\* closing it below is index = RunStart(end) - 1.
HoleOf(end) ==
    IF RunStart(end) = 0 THEN <<end * LINE_SIZE, 0>>
    ELSE <<end * LINE_SIZE, (RunStart(end) - 1 + 2) * LINE_SIZE>>

\* C13: find_next_available_hole returns the highest-addressed accepted run,
\* and None exactly when there is none.  Instances, for alloc_size LINE_SIZE:
\* marks {0,1,2,4,10} from 1280 give (1280, 768); marks {3,4,5} from 384 give
\* (384, 0); every even line marked gives None; no marks from BLOCK_CAPACITY
\* gives (16256, 0).
C13_FindsHighestAcceptedRun ==
    Searched =>
        /\ LET ends == {end \in RunEnds : Accepted(end)}
           IN  ret.res = IF ends = {} THEN None ELSE Some(HoleOf(Max(ends)))
        /\ (bb.val.marked = {0, 1, 2, 4, 10} /\ ret.arg = <<1280, 128>>)
              => ret.res = Some(<<1280, 768>>)
        /\ (bb.val.marked = {3, 4, 5} /\ ret.arg = <<384, 128>>)
              => ret.res = Some(<<384, 0>>)
        /\ (bb.val.marked = EvenLines /\ ret.arg = <<BLOCK_CAPACITY, 128>>)
              => ret.res = None
        /\ (bb.val.marked = {} /\ ret.arg = <<BLOCK_CAPACITY, 128>>)
              => ret.res = Some(<<16256, 0>>)

\* C13's case: the search of test_find_next_hole, which returns the run of
\* five lines between the marks at 10 and 4, less the line above the mark.
C13_Witness ==
    /\ Searched
    /\ bb.val.marked = {0, 1, 2, 4, 10} /\ ret.arg = <<1280, 128>>
    /\ ret.res = Some(<<1280, 768>>)

\* C19: a hole (cursor, limit) returned by find_next_available_hole(starting_at,
\* alloc_size) has limit <= cursor <= starting_at and cursor - limit >=
\* alloc_size, every line from limit / LINE_SIZE up to cursor / LINE_SIZE
\* (exclusive) is FREE, and when limit > 0 the line right below limit is FREE
\* and the line below that one is MARKED.
C19_HoleIsFreeAboveBuffer ==
    (Searched /\ ret.res.tag = "Some") =>
        LET cursor == ret.res.val[1]
            limit == ret.res.val[2]
        IN  /\ limit <= cursor /\ cursor <= starting_at
            /\ cursor - limit >= searched_size
            /\ \A line \in (limit \div LINE_SIZE)..(cursor \div LINE_SIZE - 1) :
                  MetaByte(bb.val, line) = FREE
            /\ limit > 0 =>
                  /\ limit \div LINE_SIZE >= 2
                  /\ MetaByte(bb.val, limit \div LINE_SIZE - 1) = FREE
                  /\ MetaByte(bb.val, limit \div LINE_SIZE - 2) = MARKED

\* C19's case: a hole above a marked line, as in test_find_next_hole, where
\* line 4 is MARKED, line 5 is given up and the hole starts at line 6.
C19_Witness ==
    /\ Searched /\ ret.res.tag = "Some"
    /\ ret.res.val[2] = 6 * LINE_SIZE /\ ret.res.val[1] > ret.res.val[2]
    /\ 4 \in bb.val.marked /\ 5 \notin bb.val.marked

----------------------------------------------------------------------------
(* Properties of inner_alloc on a block whose hole is used up. *)

Retried == ret.op = "inner_alloc"

\* The block inner_alloc was applied to and what the search finds in it.
RetryBlock == HoleUsedUp(bb.val, ret.arg[1])
RetryHole == find_next_available_hole(RetryBlock, ret.arg[1], ret.arg[2])

\* The call has to search: the size fits below the cursor, the bump crosses
\* limit, and limit is not the block's base.
MustSearch ==
    /\ RetryBlock.cursor >= ret.arg[2]
    /\ AndAlignMask(RetryBlock.cursor - ret.arg[2]) < RetryBlock.limit
    /\ ret.arg[1] > 0

\* C17: inner_alloc does not panic and takes at most two activations: when
\* find_next_available_hole returns a hole for alloc_size, the retry inside
\* that hole returns a pointer within it; when inner_alloc returns None,
\* cursor and limit are as before the call.
C17_RetrySucceedsAtDepthTwo ==
    Retried =>
        /\ ~ret.panic
        /\ ret.res.depth <= 2
        /\ (MustSearch /\ RetryHole.tag = "Some") =>
              /\ ret.res.depth = 2
              /\ ret.res.ret.tag = "Some"
              /\ ret.res.ret.val >= bb.val.block.ptr + RetryHole.val[2]
              /\ ret.res.ret.val + ret.arg[2] <= bb.val.block.ptr + RetryHole.val[1]
              /\ ret.res.b.cursor = ret.res.ret.val
              /\ ret.res.b.limit = bb.val.block.ptr + RetryHole.val[2]
        /\ ~(MustSearch /\ RetryHole.tag = "Some") => ret.res.depth = 1
        /\ ret.res.ret.tag = "None" =>
              /\ ret.res.b.cursor = RetryBlock.cursor
              /\ ret.res.b.limit = RetryBlock.limit

\* C17's case: the block of test_find_next_hole with its hole used up at line
\* 10; inner_alloc(LINE_SIZE) moves to the hole (1280, 768) and places the
\* object at 1152 on the retry.
C17_Witness ==
    /\ Retried
    /\ bb.val.marked = {0, 1, 2, 4, 10} /\ ret.arg = <<1280, 128>>
    /\ ret.res.depth = 2
    /\ ret.res.ret = Some(bb.val.block.ptr + 1152)

\* The other outcome: no hole below, None with cursor and limit kept.
C17_WitnessNone ==
    /\ Retried
    /\ MustSearch /\ RetryHole.tag = "None"
    /\ ret.res.ret.tag = "None" /\ ret.res.b.cursor = RetryBlock.cursor

----------------------------------------------------------------------------
(* Properties of the heap. *)

\* Every bump block the block list holds.
HeapBlocks(bl) ==
    {o.val : o \in {x \in {bl.head, bl.overflow} : x.tag = "Some"}}
    \cup {bl.free[i] : i \in 1..Len(bl.free)}
    \cup {bl.recycle[i] : i \in 1..Len(bl.recycle)}
    \cup {bl.used[i] : i \in 1..Len(bl.used)}

\* C3: every payload pointer p returned by alloc or alloc_array, for any header
\* size, has p mod ALIGN = 0, and [p, p + size) lies inside
\* [block_base, block_base + BLOCK_CAPACITY) of the block it was carved from.
C3_PayloadAlignedInBlock ==
    last.res = "Ok" =>
        /\ last.ptr % ALIGN = 0
        /\ \E b \in HeapBlocks(blocks) :
              /\ b.block.ptr <= last.space /\ last.space < b.block.ptr + BLOCK_SIZE
              /\ b.block.ptr <= last.ptr
              /\ last.ptr + WInt(last.size) <= b.block.ptr + BLOCK_CAPACITY

\* C4: whenever alloc or alloc_array returns an error, head, overflow, free,
\* recycle and used and every block's cursor and limit are as before the call.
C4_NoPartialStateOnError ==
    [][last'.res = "Err" => blocks' = blocks]_vars

\* C6: for every payload p returned by alloc or alloc_array, get_header(p) is
\* p - header_alloc_size, the address at which the allocation's header was
\* written.
C6_GetHeaderFindsHeader ==
    last.res = "Ok" =>
        /\ get_header(last.ptr) = last.ptr - WInt(add_alignment_padding(W(hsize)))
        /\ get_header(last.ptr) = last.space

\* C7: get_object(get_header(p)) = p for every payload p returned by alloc or
\* alloc_array, for every header size.
C7_GetObjectInvertsGetHeader ==
    last.res = "Ok" => get_object(get_header(last.ptr)) = last.ptr

\* C7's case: a payload returned by alloc under a header whose size is not a
\* multiple of ALIGN, carved from a block other than the first.
C7_Witness ==
    /\ last.res = "Ok" /\ last.op = "alloc"
    /\ hsize % ALIGN # 0
    /\ last.space > OsAddress(2)

\* C8: alloc and alloc_array return Err(BadRequest) whenever the padded total
\* alloc_size is 0, exceeds MAX_ALLOC_SIZE or is in the Large range
\* 8193..=MAX_ALLOC_SIZE, and never return BadRequest when it is in 1..=8192,
\* which they classify Small up to 128 and Medium above.
C8_BadRequestExactlyOutsideSmallMedium ==
    last.op # "none" =>
        LET a == last.alloc_size
            bad == last.res = "Err" /\ last.err = "BadRequest"
        IN  /\ (a = W(0) \/ ~WLe(a, MAX_ALLOC_SIZE) \/ WIn(W(8193), a, MAX_ALLOC_SIZE))
                  => bad
            /\ WIn(W(1), a, W(8192)) => ~bad
            /\ (last.res = "Ok" /\ WIn(W(1), a, W(128))) => last.header.size_class = "Small"
            /\ (last.res = "Ok" /\ WIn(W(129), a, W(8192)))
                  => last.header.size_class = "Medium"

\* C8's case: a call whose padded total is 0 (a zero-sized object under a
\* zero-sized header) returned BadRequest on a heap that already holds blocks.
C8_Witness ==
    /\ last.alloc_size = W(0)
    /\ last.res = "Err" /\ last.err = "BadRequest"
    /\ block_count(blocks) = 2

\* C9: from an empty heap, allocating objects of one Small alloc_size a: after
\* floor(BLOCK_CAPACITY / a) allocations there is one block, the head, used is
\* empty and the head's hole is BLOCK_CAPACITY mod a; the next allocation pushes
\* the old head onto used (length 1) and installs a new head with hole
\* BLOCK_CAPACITY - a, and block_count is 2.
C9_HeadRotatesWhenFull ==
    (hist.uniform /\ hist.n >= 1 /\ hist.a \in 1..128) =>
        /\ hist.n = BLOCK_CAPACITY \div hist.a =>
              /\ block_count(blocks) = 1
              /\ blocks.head.tag = "Some"
              /\ blocks.used = <<>>
              /\ current_hole_size(blocks.head.val) = BLOCK_CAPACITY % hist.a
        /\ hist.n = (BLOCK_CAPACITY \div hist.a) + 1 =>
              /\ block_count(blocks) = 2
              /\ Len(blocks.used) = 1
              /\ blocks.used[1].block.ptr = OsAddress(1)
              /\ current_hole_size(blocks.used[1]) = BLOCK_CAPACITY % hist.a
              /\ blocks.head.tag = "Some"
              /\ blocks.head.val.block.ptr = OsAddress(2)
              /\ current_hole_size(blocks.head.val) = BLOCK_CAPACITY - hist.a

\* C9's case: the allocation after the head was filled with objects of a Small
\* size that does not divide BLOCK_CAPACITY.
C9_Witness ==
    /\ hist.uniform /\ hist.a \in 1..128
    /\ BLOCK_CAPACITY % hist.a # 0
    /\ hist.n = (BLOCK_CAPACITY \div hist.a) + 1

\* A step is a Medium allocation that the head, present, cannot fit.
MediumPastHead ==
    /\ blocks.head.tag = "Some"
    /\ last'.op # "none"
    /\ get_for_size(last'.alloc_size) = "Medium"
    /\ WInt(last'.alloc_size) > current_hole_size(blocks.head.val)

\* The step's allocation succeeded in the overflow block and left the head
\* as it was; with overflow empty before, a fresh block became overflow.
ServedByOverflow ==
    /\ last'.res = "Ok"
    /\ blocks'.head = blocks.head
    /\ blocks'.overflow.tag = "Some"
    /\ last'.space = blocks'.overflow.val.cursor
    /\ blocks.overflow.tag = "None" =>
          /\ block_count(blocks') = block_count(blocks) + 1
          /\ current_hole_size(blocks'.overflow.val)
                = BLOCK_CAPACITY - WInt(last'.alloc_size)

\* The step needed a new block, the OS refused it, and the heap is unchanged.
RefusedNewBlock ==
    /\ last'.res = "Err" /\ last'.err = "OOM"
    /\ blocks' = blocks
    /\ \/ blocks.overflow.tag = "None"
       \/ WInt(last'.alloc_size) > current_hole_size(blocks.overflow.val)

\* C10 as stated: with head present, a Medium allocation of alloc_size >
\* head.current_hole_size() is served by overflow_alloc and succeeds; with
\* overflow empty a fresh block is installed as overflow, block_count grows by 1,
\* its hole is BLOCK_CAPACITY - alloc_size, and the head's cursor and limit are
\* unchanged.
C10_MediumPastHeadSucceeds ==
    [][MediumPastHead => ServedByOverflow]_vars

\* C10, amended: the same, except that the allocation returns Err(OOM) and
\* leaves the heap unchanged when it needs a new block (overflow is empty or
\* cannot fit the request) and the OS allocator refuses one.
C10_MediumPastHeadSucceedsUnlessOOM ==
    [][MediumPastHead => (ServedByOverflow \/ RefusedNewBlock)]_vars

\* C10's case: a Medium allocation that the head could not fit was served by a
\* block newly installed as overflow.
C10_Witness ==
    /\ last.res = "Ok" /\ last.header.size_class = "Medium"
    /\ blocks.head.tag = "Some" /\ blocks.overflow.tag = "Some"
    /\ WInt(last.alloc_size) > current_hole_size(blocks.head.val)
    /\ last.space = blocks.overflow.val.cursor
    /\ current_hole_size(blocks.overflow.val) = BLOCK_CAPACITY - WInt(last.alloc_size)
    /\ blocks.recycle = <<>>

\* A step is a Medium allocation that neither the head nor the overflow block,
\* both present, can fit: overflow's inner_alloc fails.
MediumPastOverflow ==
    /\ MediumPastHead
    /\ blocks.overflow.tag = "Some"
    /\ inner_alloc(blocks.overflow.val, WInt(last'.alloc_size)).ret.tag = "None"

\* The block overflow_alloc takes as the new overflow: the top of free, or a
\* newly created one when free is empty.
NextFreeBlock ==
    IF blocks.free # <<>> THEN Pop(blocks.free).top
    ELSE BumpBlock_new(TRUE, OsAddress(created + 1)).val

\* The step replaced overflow by NextFreeBlock, pushed the displaced block onto
\* recycle and allocated in the new overflow block.
OverflowReplaced ==
    /\ last'.res = "Ok"
    /\ blocks'.overflow.tag = "Some"
    /\ blocks'.overflow.val.block = NextFreeBlock.block
    /\ blocks'.recycle = Append(blocks.recycle, blocks.overflow.val)
    /\ Len(blocks'.recycle) = Len(blocks.recycle) + 1
    /\ last'.space = blocks'.overflow.val.cursor
    /\ current_hole_size(blocks'.overflow.val)
          = BLOCK_CAPACITY - WInt(last'.alloc_size)
    /\ blocks'.head = blocks.head /\ blocks'.used = blocks.used
    /\ IF blocks.free # <<>>
       THEN blocks'.free = Pop(blocks.free).rest /\ created' = created
       ELSE blocks'.free = <<>> /\ created' = created + 1

\* C11 as stated: when overflow is present and its inner_alloc fails for a
\* Medium allocation, overflow_alloc replaces overflow with a block popped from
\* free (or a newly created one when free is empty), pushes the displaced block
\* onto recycle, whose length grows by exactly 1, and the allocation succeeds in
\* the new overflow block, leaving its hole at BLOCK_CAPACITY - alloc_size.
C11_FullOverflowIsReplaced ==
    [][MediumPastOverflow => OverflowReplaced]_vars

\* C11, amended: the same, except that when free is empty and the OS allocator
\* refuses a new block the call returns Err(OOM) and the block list is
\* unchanged.
C11_FullOverflowIsReplacedUnlessOOM ==
    [][MediumPastOverflow =>
          \/ OverflowReplaced
          \/ /\ last'.res = "Err" /\ last'.err = "OOM"
             /\ blocks.free = <<>>
             /\ blocks' = blocks /\ created' = created]_vars

\* C11's case: a Medium allocation was served by a block that displaced the
\* overflow block onto recycle.
C11_Witness ==
    /\ last.res = "Ok" /\ last.header.size_class = "Medium"
    /\ Len(blocks.recycle) = 1
    /\ blocks.overflow.tag = "Some"
    /\ last.space = blocks.overflow.val.cursor
    /\ current_hole_size(blocks.overflow.val) = BLOCK_CAPACITY - WInt(last.alloc_size)
    /\ block_count(blocks) = 3

\* C16: alloc_array(n) that succeeds writes a header built by new_array with
\* size n, the size class of the padded total and mark Allocated at the start
\* of the allocated space, and zeroes the n payload bytes starting at the
\* returned pointer; the zeroing overwrites neither the header, which takes the
\* hsize bytes from space, nor any byte outside [space, space + alloc_size).
C16_ArrayZeroedBehindHeader ==
    (last.op = "alloc_array" /\ last.res = "Ok") =>
        LET n == WInt(last.size)
            alloc_size == WInt(last.alloc_size)
            padded_total ==
                add_alignment_padding(WAdd(add_alignment_padding(W(hsize)), last.size))
        IN  /\ last.alloc_size = padded_total
            /\ last.header = [size |-> last.size,
                              size_class |-> get_for_size(padded_total),
                              mark |-> "Allocated", type_id |-> "Array"]
            /\ last.space + hsize <= last.ptr
            /\ last.ptr + n <= last.space + alloc_size

\* C16's case: an array of 8000 bytes allocated behind a header whose size is
\* not a multiple of ALIGN.
C16_Witness ==
    /\ last.op = "alloc_array" /\ last.res = "Ok"
    /\ last.size = W(8000) /\ hsize = 100

\* C20: over any sequence of alloc and alloc_array calls on one heap, the byte
\* ranges [space, space + alloc_size) of the successful calls are pairwise
\* disjoint: no call hands out a byte that an earlier call handed out.
C20_AllocationsDisjoint == ~given.overlap

\* C20's case: a successful call after earlier ones both in its own block
\* (its range joins an interval that is longer than it) and in another block.
C20_Witness ==
    /\ last.res = "Ok"
    /\ Cardinality(given.ranges) >= 2
    /\ \E i \in given.ranges :
          /\ i[1] = last.space
          /\ i[2] > last.space + WInt(last.alloc_size)

\* A step is a call whose head.inner_alloc fails in find_space: there is a
\* head, the request is not sent to the overflow block, and it does not fit.
HeadFails ==
    /\ blocks.head.tag = "Some"
    /\ last'.op # "none"
    /\ get_for_size(last'.alloc_size) \in {"Small", "Medium"}
    /\ ~SendToOverflow(blocks.head.val, WInt(last'.alloc_size),
                       get_for_size(last'.alloc_size))
    /\ inner_alloc(blocks.head.val, WInt(last'.alloc_size)).ret.tag = "None"

\* The blocks a rotation takes in turn, recycle first and free after it, each
\* vector from its end; Tried is how many of them in a row are too small for
\* the step's request.
Candidates == Reverse(blocks.recycle) \o Reverse(blocks.free)
TooSmall(b) == current_hole_size(b) < WInt(last'.alloc_size)
Tried ==
    CHOOSE k \in 0..Len(Candidates) :
        /\ \A i \in 1..k : TooSmall(Candidates[i])
        /\ k = Len(Candidates) \/ ~TooSmall(Candidates[k + 1])

\* recycle and free after m blocks were taken.
PoolsAfter(m) ==
    /\ blocks'.recycle
          = SubSeq(blocks.recycle, 1, Len(blocks.recycle) - Min({m, Len(blocks.recycle)}))
    /\ blocks'.free
          = SubSeq(blocks.free, 1, Len(blocks.free) - Max({0, m - Len(blocks.recycle)}))

\* The head after the step is block b with the request carved from its top.
HeadIs(b) ==
    /\ blocks'.head.tag = "Some"
    /\ blocks'.head.val.block = b.block
    /\ blocks'.head.val.cursor = b.cursor - WInt(last'.alloc_size)
    /\ last'.space = blocks'.head.val.cursor

\* C22: when head.inner_alloc fails in find_space, the head is pushed onto
\* used and replaced by the last block of recycle if there is one, else by the
\* last block of free if there is one, else by a new block, and the allocation
\* is retried against the new head (which rotates again if the request does
\* not fit there either); overflow is not touched.
C22_RotationPrefersRecycle ==
    [][HeadFails =>
          /\ blocks'.overflow = blocks.overflow
          /\ IF Tried < Len(Candidates)
             THEN /\ last'.res = "Ok"
                  /\ HeadIs(Candidates[Tried + 1])
                  /\ blocks'.used
                        = blocks.used \o <<blocks.head.val>> \o SubSeq(Candidates, 1, Tried)
                  /\ PoolsAfter(Tried + 1)
                  /\ created' = created
             ELSE IF last'.res = "Ok"
             THEN /\ created' = created + 1
                  /\ HeadIs(BumpBlock_new(TRUE, OsAddress(created + 1)).val)
                  /\ blocks'.used = blocks.used \o <<blocks.head.val>> \o Candidates
                  /\ PoolsAfter(Len(Candidates))
             ELSE /\ last'.res = "Err" /\ last'.err = "OOM"
                  /\ created' = created
                  /\ PoolsAfter(Len(Candidates))
                  /\ IF Candidates = <<>>
                     THEN blocks' = blocks
                     ELSE /\ blocks'.head = Some(Candidates[Len(Candidates)])
                          /\ blocks'.used
                                = blocks.used \o <<blocks.head.val>>
                                  \o SubSeq(Candidates, 1, Len(Candidates) - 1)]_vars

\* C22's case: the last call rotated the head and allocated in the block it
\* took from recycle: the second block made, the overflow block before the
\* third was made; the first block is on used.
C22_Witness ==
    /\ last.res = "Ok" /\ get_for_size(last.alloc_size) = "Small"
    /\ last.depth = 2
    /\ created = 3
    /\ blocks.overflow.tag = "Some" /\ blocks.overflow.val.block.ptr = OsAddress(3)
    /\ blocks.head.tag = "Some" /\ blocks.head.val.block.ptr = OsAddress(2)
    /\ blocks.head.val.cursor = last.space
    /\ Len(blocks.used) = 1 /\ blocks.used[1].block.ptr = OsAddress(1)
    /\ blocks.recycle = <<>>

\* C23: a Medium allocation never rotates the head: it leaves used as it was
\* and the head in the same block, and when alloc_size <= the head's hole it
\* succeeds in the head; a Small allocation never changes overflow.
C23_MediumNeverRotates ==
    [][last'.op # "none" =>
          LET alloc_size == WInt(last'.alloc_size)
              size_class == get_for_size(last'.alloc_size)
          IN  /\ size_class = "Medium" =>
                    /\ blocks'.used = blocks.used
                    /\ blocks.head.tag = "Some" =>
                          /\ blocks'.head.tag = "Some"
                          /\ blocks'.head.val.block = blocks.head.val.block
                          /\ IF alloc_size <= current_hole_size(blocks.head.val)
                             THEN /\ last'.res = "Ok"
                                  /\ last'.space = blocks.head.val.cursor - alloc_size
                                  /\ blocks'.head.val.cursor = last'.space
                                  /\ blocks'.overflow = blocks.overflow
                             ELSE blocks'.head = blocks.head
              /\ size_class = "Small" => blocks'.overflow = blocks.overflow]_vars

\* C23's case: a Medium allocation that went to the overflow block past a head
\* with room left for Small objects, and nothing on used.
C23_Witness ==
    /\ last.res = "Ok" /\ get_for_size(last.alloc_size) = "Medium"
    /\ blocks.head.tag = "Some" /\ blocks.overflow.tag = "Some"
    /\ last.space = blocks.overflow.val.cursor
    /\ current_hole_size(blocks.head.val) >= 2 * LINE_SIZE
    /\ blocks.used = <<>>

\* The blocks a call took out of recycle and free or had the OS create.
BlocksTaken ==
    (Len(blocks.recycle) - Len(blocks'.recycle))
    + (Len(blocks.free) - Len(blocks'.free))
    + (created' - created)

\* C24: every find_space call terminates within |recycle| + |free| + 2
\* activations: each recursive call is preceded by taking one block from
\* recycle or free or by creating one, and a call that rotated into a block
\* just created returns without recursing again.
C24_FindSpaceDepthBounded ==
    [][last'.op # "none" =>
          /\ last'.depth <= Len(blocks.recycle) + Len(blocks.free) + 2
          /\ last'.depth > 1 =>
                /\ Len(blocks'.used) = Len(blocks.used) + last'.depth - 1
                /\ BlocksTaken = last'.depth - 1
                /\ created' > created =>
                      /\ last'.res = "Ok"
                      /\ blocks'.head.val.block.ptr = OsAddress(created')
                      /\ blocks'.head.val.cursor = last'.space]_vars

\* C24's case: with recycle and free empty, a call found the head full, had a
\* block created and succeeded in it: two activations, the bound.
C24_Witness ==
    /\ last.res = "Ok" /\ last.depth = 2
    /\ created = 2
    /\ blocks.recycle = <<>> /\ blocks.free = <<>>
    /\ Len(blocks.used) = 1 /\ blocks.used[1].block.ptr = OsAddress(1)
    /\ blocks.head.tag = "Some" /\ blocks.head.val.block.ptr = OsAddress(2)

\* C25: no sequence of alloc and alloc_array calls panics: the assert! of
\* overflow_alloc and the unwraps of inner_alloc on a block just obtained hold,
\* and every request that reaches them is at most BLOCK_CAPACITY.
C25_NoPanic ==
    /\ last.res # "Panic"
    /\ get_for_size(last.alloc_size) \in {"Small", "Medium"} =>
          WInt(last.alloc_size) <= BLOCK_CAPACITY

\* C25's case: a Medium call passed the assert!, found overflow too full, had a
\* third block created, pushed the old overflow block onto recycle and
\* unwrapped the allocation in the new one.
C25_Witness ==
    /\ last.res = "Ok" /\ get_for_size(last.alloc_size) = "Medium"
    /\ created = 3
    /\ blocks.overflow.tag = "Some"
    /\ blocks.overflow.val.block.ptr = OsAddress(3)
    /\ blocks.overflow.val.cursor = OsAddress(3) + BLOCK_CAPACITY - WInt(last.alloc_size)
    /\ last.space = blocks.overflow.val.cursor
    /\ Len(blocks.recycle) = 1 /\ blocks.recycle[1].block.ptr = OsAddress(2)

\* Every block created so far is held in exactly one of head, overflow, free,
\* recycle and used: the places hold as many blocks as were created, and the
\* blocks they hold are the ones the OS gave.
HeldAt(bl) ==
    (IF bl.head.tag = "Some" THEN {bl.head.val.block.ptr} ELSE {})
    \cup (IF bl.overflow.tag = "Some" THEN {bl.overflow.val.block.ptr} ELSE {})
    \cup {bl.free[i].block.ptr : i \in 1..Len(bl.free)}
    \cup {bl.recycle[i].block.ptr : i \in 1..Len(bl.recycle)}
    \cup {bl.used[i].block.ptr : i \in 1..Len(bl.used)}

Conserved(bl, n) ==
    /\ block_count(bl) = n
    /\ HeldAt(bl) = {OsAddress(k) : k \in 1..n}

\* C26: blocks are conserved: every block ever created is held in exactly one
\* of head, overflow, free, recycle or used, so block_count() is the number of
\* blocks created; block_count() never decreases and grows by at most 1 per
\* call.
C26_BlocksConserved ==
    /\ []Conserved(blocks, created)
    /\ [][/\ block_count(blocks') >= block_count(blocks)
          /\ block_count(blocks') <= block_count(blocks) + 1]_vars

\* C26's case: three blocks created, the last by a head rotation: the third is
\* the head, the second is overflow, the first is on used.
C26_Witness ==
    /\ created = 3 /\ block_count(blocks) = 3
    /\ last.res = "Ok" /\ last.depth = 2
    /\ blocks.head.tag = "Some" /\ blocks.head.val.block.ptr = OsAddress(3)
    /\ blocks.overflow.tag = "Some" /\ blocks.overflow.val.block.ptr = OsAddress(2)
    /\ Len(blocks.used) = 1 /\ blocks.used[1].block.ptr = OsAddress(1)

\* C27: in every reachable heap state each block in recycle has a usable hole
\* (current_hole_size() > 0) and each block in used has none
\* (current_hole_size() == 0).
C27_RecycleHasHoleUsedHasNone ==
    /\ \A i \in 1..Len(blocks.recycle) : current_hole_size(blocks.recycle[i]) > 0
    /\ \A i \in 1..Len(blocks.used) : current_hole_size(blocks.used[i]) = 0

====
